---- MODULE Spec2Model ----
(***************************************************************************)
(* A model of rico-bot's playback queue and catalog client.                *)
(*                                                                         *)
(*   - the play / skip commands of src/cogs/music/cmd_player.py, run as    *)
(*     coroutines: one action per block of code between two suspension     *)
(*     points (await), over the persisted per-guild queue and the guild's  *)
(*     audio player;                                                       *)
(*   - check_renew, request_token and create_playlist of                   *)
(*     src/clients/spotify_client.py, which are synchronous: one action    *)
(*     per call.                                                           *)
(*                                                                         *)
(* Text (queries, URLs) is a sequence of tokens, so that a prefix can be   *)
(* tested and prepended.  Absent values: NoIndex for a missing queue index *)
(* (None), the empty sequence / empty string for a missing field.          *)
(***************************************************************************)
EXTENDS Integers, Sequences, FiniteSets, TLC

\* ------------------------------------------------------------------ bounds
NumChannels == 2        \* guilds of the model
NumProcs    == 2        \* command coroutines that may be in flight
MaxOps      == 3        \* command invocations in one behaviour
MaxInit     == 3        \* items of the queue persisted by an earlier run
ConcOps     == 2        \* command invocations in one interleaved behaviour
MaxTracks   == 250      \* track URIs given to create_playlist
MaxCalls    == 12       \* calls of create_playlist in one behaviour
MaxMono     == 6        \* seconds of the rate limiter's clock
MaxListing  == 5        \* tracks of an album or playlist that get_tracks pages through
MaxPage     == 3        \* items of one page of a track listing

Channels == 1..NumChannels
Procs    == 1..NumProcs

\* ------------------------------------------------------------ data model
\* get_queue_index's None
NoIndex == -1

\* QueueItem(requester, url=, query=, spotify_id=, title=, artist=)
QueueItem(requester, url, query, spotify_id, title, artist) ==
    [requester |-> requester, url |-> url, query |-> query,
     spotify_id |-> spotify_id, title |-> title, artist |-> artist]

NoItem == QueueItem("", <<>>, <<>>, "", "", "")

\* The catalog: the track objects (name, artists, id, duration_ms) of the
\* lists of the model.
CatalogTracks ==
    <<[name |-> "n1", artists |-> <<[name |-> "a1"]>>, id |-> "t1", duration_ms |-> 1000],
      [name |-> "n2", artists |-> <<[name |-> "a2"], [name |-> "a3"]>>, id |-> "t2", duration_ms |-> 2000]>>

\* extract_track_info(track_obj): the track inside a playlist item, or the
\* object itself; a tuple of four of it.
extract_track_info(track_obj) ==
    LET t == IF "track" \in DOMAIN track_obj THEN track_obj.track ELSE track_obj
    IN <<t.name, t.artists[1].name, t.id, t.duration_ms>>

\* The track objects the catalog holds behind an id.
CatalogItems(sp_id) ==
    CASE sp_id = "t1"    -> <<CatalogTracks[1]>>
      [] sp_id = "list0" -> <<>>
      [] sp_id = "list1" -> <<CatalogTracks[1]>>
      [] sp_id = "list2" -> CatalogTracks
      [] OTHER           -> <<>>

\* get_track / get_tracks of the Spotify client: extract_track_info of the
\* track, or of each track of the list.
GetTracks(sp_id) ==
    [i \in 1..Len(CatalogItems(sp_id)) |-> extract_track_info(CatalogItems(sp_id)[i])]

\* A query as the command receives it.  form: what check_spotify_url and
\* check_url say of it; sp_type, sp_id: what parse_spotify_url extracts.
Query(form, sp_type, sp_id, text) ==
    [form |-> form, sp_type |-> sp_type, sp_id |-> sp_id, text |-> text]

NoQuery == Query("none", "", "", <<>>)

Queries ==
    { Query("text", "", "", <<"song">>),
      Query("text", "", "", <<"scsearch:", "song">>),
      Query("url", "", "", <<"https://", "example.org/a">>),
      Query("spotify", "track", "t1", <<"https://", "open.spotify.com/", "track/", "t1">>),
      Query("spotify", "album", "list2", <<"https://", "open.spotify.com/", "album/", "list2">>),
      Query("spotify", "playlist", "list0", <<"https://", "open.spotify.com/", "playlist/", "list0">>),
      Query("spotify", "artist", "x1", <<"https://", "open.spotify.com/", "artist/", "x1">>),
      Query("text", "", "", <<"ytsearch:", "song">>),
      Query("text", "", "", <<"<", "song", ">">>),
      Query("url", "", "", <<"<", "https://", "example.org/a", ">">>),
      Query("spotify", "playlist", "list1", <<"https://", "open.spotify.com/", "playlist/", "list1">>) }

\* The queries of the player's behaviours: one for each path through play
\* (one item, a listing of two tracks, an empty listing, an unsupported kind).
PlayerQueries ==
    { Query("text", "", "", <<"song">>),
      Query("spotify", "album", "list2", <<"https://", "open.spotify.com/", "album/", "list2">>),
      Query("spotify", "playlist", "list0", <<"https://", "open.spotify.com/", "playlist/", "list0">>),
      Query("spotify", "artist", "x1", <<"https://", "open.spotify.com/", "artist/", "x1">>) }

Requester == "u1"

StartsWith(text, prefix) == Len(text) > 0 /\ Head(text) = prefix

\* query.strip('<>'): the text without its leading and trailing < and >.
RECURSIVE Strip(_)
Strip(text) ==
    IF text = <<>> THEN text
    ELSE IF Head(text) \in {"<", ">"} THEN Strip(Tail(text))
    ELSE IF text[Len(text)] \in {"<", ">"} THEN Strip(SubSeq(text, 1, Len(text) - 1))
    ELSE text

\* check_spotify_url(query), check_url(query): a Spotify URL is a URL as well.
check_spotify_url(q) == q.form = "spotify"

check_url(q) == q.form \in {"spotify", "url"}

\* parse_spotify_url(query, valid_types): raises SpotifyInvalidURLError for a
\* type that is not valid.
ValidTypesWithArtist == {"track", "album", "playlist", "artist"}

ValidTypes == {"track", "album", "playlist"}

parse_spotify_url(q, valid_types) ==
    [raised |-> q.sp_type \notin valid_types, sp_type |-> q.sp_type, sp_id |-> q.sp_id]

\* Items left in the store by an earlier run of the bot.
OldNames == <<"old1", "old2", "old3", "old4", "old5">>
OldItem(i) == QueueItem("u0", <<>>, <<"ytsearch:", OldNames[i]>>, "", "", "")
OldQueue(n) == [i \in 1..n |-> OldItem(i)]

VARIABLES
    chans,      \* the guilds in use
    serial,     \* TRUE: commands run one at a time
    db,         \* db[c]: the persisted player data of guild c: queue, index
    backend,    \* backend[c]: the guild's audio player: status and last item handed to it
    inv,        \* inv[p]: the locals of command coroutine p, and its position
    nops,       \* commands invoked so far
    now,        \* time.time(), in ticks of half a microsecond
    mono,       \* the rate limiter's clock, in seconds
    limiter,    \* the state of create_playlist's @limits decorator
    call,       \* the last call of the Spotify client: inputs, requests sent, result
    ncalls,     \* calls of the Spotify client so far
    started,    \* the limiter's clock at each call of create_playlist whose body ran
    fetch       \* the last call of get_tracks: the listing, the pages asked for, the result

playerVars == <<chans, serial, db, backend, inv, nops>>

clientVars == <<now, mono, limiter, call, ncalls, started, fetch>>

vars == <<chans, serial, db, backend, inv, nops, now, mono, limiter, call, ncalls, started,
          fetch>>

\* ------------------------------------------------------------ queue store
\* The persisted player data of one guild (queue_helpers over the database).
PlayerData(queue, index) == [queue |-> queue, index |-> index]

get_queue_index(d) == d.index

get_queue_size(d) == Len(d.queue)

set_queue_index(d, i) == [d EXCEPT !.index = i]

set_queue_db(d, items) == [d EXCEPT !.queue = items]

enqueue_db(d, items) == [d EXCEPT !.queue = @ \o items]

\* The item at (zero-based) index i; the caller checks InQueue first.
dequeue_db(d, i) == d.queue[i + 1]

InQueue(d, i) == 0 <= i /\ i < Len(d.queue)

\* self.db.child('player').child(guild).remove()
RemovePlayerData == PlayerData(<<>>, NoIndex)

\* ---------------------------------------------------------- audio backend
Player(exists, is_playing, paused, last) ==
    [exists |-> exists, is_playing |-> is_playing, paused |-> paused, last |-> last]

NoPlayer == Player(FALSE, FALSE, FALSE, NoItem)

\* What a handoff (enqueue) that ended with `res` leaves of the player.
Handoff(b, item, res) ==
    IF res = "ok" THEN Player(TRUE, TRUE, b.paused, item) ELSE b

HandoffResults == {"ok", "fail", "raise"}

\* ---------------------------------------------------------------- resolver
\* track_name, track_artist, track_id = t: a ValueError unless t has three
\* elements.
Unpacks(t) == Len(t) = 3

\* The QueueItem play builds for one catalog track.
TrackItem(requester, t) == QueueItem(requester, <<>>, <<>>, t[3], t[1], t[2])

\* A resolution that tests check_url before check_spotify_url.
ResolveQueryUrlFirst(q, requester) ==
    IF check_url(q) THEN
        [status |-> "ok",
         new_tracks |-> <<QueueItem(requester, Strip(q.text), <<>>, "", "", "")>>]
    ELSE
        [status |-> "ok",
         new_tracks |-> <<QueueItem(requester, <<>>, <<"ytsearch:">> \o Strip(q.text), "", "", "")>>]

\* play's resolution of a query into new_tracks.  status: "ok";
\* "unsupported" (the 'Only Spotify track, album, and playlist URLs are
\* supported.' reply); "empty" (the 'is empty' reply); "error" (an exception
\* leaves the command).
ResolveQuery(q, requester) ==
    LET query == Strip(q.text) IN
    IF check_spotify_url(q) THEN
        LET parsed == parse_spotify_url(q, ValidTypes) IN
        IF parsed.raised THEN
            [status |-> "unsupported", new_tracks |-> <<>>]
        ELSE IF parsed.sp_type = "track" THEN
            LET t == GetTracks(parsed.sp_id)[1] IN
            IF Unpacks(t)
            THEN [status |-> "ok", new_tracks |-> <<TrackItem(requester, t)>>]
            ELSE [status |-> "error", new_tracks |-> <<>>]
        ELSE
            LET tracks == GetTracks(parsed.sp_id) IN
            IF Len(tracks) < 1 THEN
                [status |-> "empty", new_tracks |-> <<>>]
            ELSE IF \A i \in 1..Len(tracks) : Unpacks(tracks[i]) THEN
                [status |-> "ok",
                 new_tracks |-> [i \in 1..Len(tracks) |-> TrackItem(requester, tracks[i])]]
            ELSE
                [status |-> "error", new_tracks |-> <<>>]
    ELSE IF check_url(q) THEN
        [status |-> "ok", new_tracks |-> <<QueueItem(requester, query, <<>>, "", "", "")>>]
    ELSE IF StartsWith(query, "ytsearch:") \/ StartsWith(query, "scsearch:") THEN
        [status |-> "ok", new_tracks |-> <<QueueItem(requester, <<>>, query, "", "", "")>>]
    ELSE
        [status |-> "ok",
         new_tracks |-> <<QueueItem(requester, <<>>, <<"ytsearch:">> \o query, "", "", "")>>]

\* ------------------------------------------------------- command coroutines
\* The locals of one command invocation.  pre, read_i, attempts, wrote, handed,
\* handed_i, cleared, reports, cuts, disconnected, overlap and outcome record
\* what the invocation saw and did.
IdleInv ==
    [pc |-> "idle", op |-> "none", ch |-> 0, queue_end |-> FALSE, query |-> NoQuery,
     new_tracks |-> <<>>, old_np |-> NoIndex, next_i |-> 0, queue_size |-> 0,
     track |-> NoItem, player |-> FALSE, pre |-> RemovePlayerData, pre_active |-> FALSE,
     read_i |-> NoIndex, attempts |-> <<>>,
     wrote |-> NoIndex, handed |-> NoItem, handed_i |-> NoIndex, cleared |-> FALSE,
     reports |-> 0, cuts |-> 0, disconnected |-> FALSE, overlap |-> {},
     outcome |-> "none"]

InFlight(p) == inv[p].pc \notin {"idle", "done"}

\* A command may be invoked: p is the first free coroutine and, when commands
\* are serial, no other one is running.
MayInvoke(p, c) ==
    /\ inv[p].pc = "idle"
    /\ \A q \in Procs : q < p => inv[q].pc # "idle"
    /\ c \in chans
    /\ nops < MaxOps
    /\ serial => \A q \in Procs : inv[q].pc = "idle"

\* The invocations already running when p starts overlap p.
Begin(p, r) ==
    LET running == {q \in Procs \ {p} : InFlight(q)} IN
    [q \in Procs |->
        IF q = p THEN [r EXCEPT !.overlap = running]
        ELSE IF q \in running THEN [inv[q] EXCEPT !.overlap = @ \cup {p}]
        ELSE inv[q]]

Active(b) == b.exists /\ (b.is_playing \/ b.paused)

Upd(p, r) == [inv EXCEPT ![p] = r]

\* ---- play without a query (cmd_player.py 134-145)
\* get_queue_index, then the 'Resuming interrupted queue' reply (a suspension
\* point) when it is an int; else the 'Please specify ...' reply.
PlayNoQuery(p, c) ==
    /\ MayInvoke(p, c)
    /\ LET old_np == get_queue_index(db[c])
           r == [IdleInv EXCEPT !.op = "resume", !.ch = c, !.old_np = old_np,
                                !.pre = db[c], !.pre_active = Active(backend[c])]
       IN inv' = Begin(p, IF old_np # NoIndex
                          THEN [r EXCEPT !.pc = "resume_replied"]
                          ELSE [r EXCEPT !.pc = "done", !.outcome = "no_query"])
    /\ nops' = nops + 1
    /\ UNCHANGED <<chans, serial, db, backend>>
    /\ UNCHANGED clientVars

\* A resume whose read takes the item out of the queue.
ResumeDequeuePopping(p) ==
    /\ inv[p].pc = "resume_replied"
    /\ LET r == inv[p]
           d == db[r.ch]
       IN IF InQueue(d, r.old_np)
          THEN /\ inv' = Upd(p, [r EXCEPT !.track = dequeue_db(d, r.old_np),
                                          !.pc = "resume_handoff"])
               /\ db' = [db EXCEPT ![r.ch] =
                            set_queue_db(d, SubSeq(d.queue, 1, r.old_np)
                                            \o SubSeq(d.queue, r.old_np + 2, Len(d.queue)))]
          ELSE /\ inv' = Upd(p, [r EXCEPT !.pc = "done", !.outcome = "error"])
               /\ UNCHANGED db
    /\ UNCHANGED <<chans, serial, backend, nops>>
    /\ UNCHANGED clientVars

\* track = dequeue_db(old_np), then the handoff (await enqueue).
ResumeDequeue(p) ==
    /\ inv[p].pc = "resume_replied"
    /\ LET r == inv[p]
           d == db[r.ch]
       IN inv' = Upd(p, IF InQueue(d, r.old_np)
                        THEN [r EXCEPT !.track = dequeue_db(d, r.old_np), !.pc = "resume_handoff"]
                        ELSE [r EXCEPT !.pc = "done", !.outcome = "error"])
    /\ UNCHANGED <<chans, serial, db, backend, nops>>
    /\ UNCHANGED clientVars

\* return await enqueue(...): the handoff ends.
ResumeReturn(p) ==
    /\ inv[p].pc = "resume_handoff"
    /\ \E res \in HandoffResults :
         LET r == inv[p] IN
         /\ backend' = [backend EXCEPT ![r.ch] = Handoff(@, r.track, res)]
         /\ inv' = Upd(p, [r EXCEPT !.pc = "done",
                                    !.attempts = Append(@, [i |-> r.old_np, res |-> res]),
                                    !.handed = IF res = "ok" THEN r.track ELSE @,
                                    !.handed_i = IF res = "ok" THEN r.old_np ELSE @,
                                    !.outcome = IF res = "raise" THEN "error" ELSE "returned"])
    /\ UNCHANGED <<chans, serial, db, nops>>
    /\ UNCHANGED clientVars

\* ---- play with a query (cmd_player.py 146-241)
\* new_tracks are in hand: enqueue_db, then the 'Added to queue' reply (a
\* suspension point); nothing more when new_tracks is empty.
AddToQueueReplacing(d, r) ==
    IF Len(r.new_tracks) > 0 THEN set_queue_db(d, r.new_tracks) ELSE d

AddToQueue(d, r) ==
    IF Len(r.new_tracks) > 0 THEN enqueue_db(d, r.new_tracks) ELSE d

Added(r) ==
    IF Len(r.new_tracks) > 0 THEN [r EXCEPT !.pc = "play_added"]
    ELSE [r EXCEPT !.pc = "done", !.outcome = "returned"]

\* Clear the queue when the guild has a player that neither plays nor is
\* paused; resolve the query.  A Spotify album or playlist sends the
\* 'Enqueueing' embed (a suspension point) before its tracks are looked at.
PlayQuery(p, c, q) ==
    /\ MayInvoke(p, c)
    /\ LET player == backend[c]
           clear == player.exists /\ ~(player.is_playing \/ player.paused)
           d == IF clear THEN set_queue_db(db[c], <<>>) ELSE db[c]
           res == ResolveQuery(q, Requester)
           r == [IdleInv EXCEPT !.op = "play", !.ch = c, !.query = q, !.cleared = clear,
                                !.pre = db[c], !.pre_active = Active(backend[c]),
                                !.new_tracks = res.new_tracks]
           listed == q.form = "spotify" /\ q.sp_type \in {"album", "playlist"}
       IN IF res.status = "unsupported" THEN
              /\ db' = [db EXCEPT ![c] = d]
              /\ inv' = Begin(p, [r EXCEPT !.pc = "done", !.outcome = "unsupported"])
          ELSE IF listed THEN
              /\ db' = [db EXCEPT ![c] = d]
              /\ inv' = Begin(p, [r EXCEPT !.pc = "play_listed", !.outcome = res.status])
          ELSE IF res.status = "error" THEN
              /\ db' = [db EXCEPT ![c] = d]
              /\ inv' = Begin(p, [r EXCEPT !.pc = "done", !.outcome = "error"])
          ELSE
              /\ db' = [db EXCEPT ![c] = AddToQueue(d, r)]
              /\ inv' = Begin(p, Added(r))
    /\ nops' = nops + 1
    /\ UNCHANGED <<chans, serial, backend>>
    /\ UNCHANGED clientVars

\* After the 'Enqueueing' embed: reply 'is empty', fail on unpacking a track,
\* or add the tracks.
PlayListed(p) ==
    /\ inv[p].pc = "play_listed"
    /\ LET r == inv[p] IN
       IF r.outcome \in {"empty", "error"} THEN
           /\ inv' = Upd(p, [r EXCEPT !.pc = "done"])
           /\ UNCHANGED db
       ELSE
           /\ db' = [db EXCEPT ![r.ch] = AddToQueue(@, r)]
           /\ inv' = Upd(p, Added([r EXCEPT !.outcome = "none"]))
    /\ UNCHANGED <<chans, serial, backend, nops>>
    /\ UNCHANGED clientVars

\* A play that sets the index of every guild.
PlayFirstEveryGuild(p) ==
    /\ inv[p].pc = "play_added"
    /\ LET r == inv[p] IN
       /\ db' = [c \in Channels |-> set_queue_index(db[c], 0)]
       /\ inv' = Upd(p, [r EXCEPT !.pc = "play_handoff", !.track = r.new_tracks[1],
                                  !.wrote = 0])
    /\ UNCHANGED <<chans, serial, backend, nops>>
    /\ UNCHANGED clientVars

\* After the 'Added to queue' reply: set_queue_index(0), then hand off the first
\* new track (await enqueue).
PlayFirst(p) ==
    /\ inv[p].pc = "play_added"
    /\ LET r == inv[p] IN
       /\ db' = [db EXCEPT ![r.ch] = set_queue_index(@, 0)]
       /\ inv' = Upd(p, [r EXCEPT !.pc = "play_handoff", !.track = r.new_tracks[1],
                                  !.wrote = 0])
    /\ UNCHANGED <<chans, serial, backend, nops>>
    /\ UNCHANGED clientVars

\* The handoff of the first new track ends; play ends with it.
PlayReturn(p) ==
    /\ inv[p].pc = "play_handoff"
    /\ \E res \in HandoffResults :
         LET r == inv[p] IN
         /\ backend' = [backend EXCEPT ![r.ch] = Handoff(@, r.track, res)]
         /\ inv' = Upd(p, [r EXCEPT !.pc = "done",
                                    !.attempts = Append(@, [i |-> 0, res |-> res]),
                                    !.handed = IF res = "ok" THEN r.track ELSE @,
                                    !.outcome = IF res = "raise" THEN "error" ELSE "returned"])
    /\ UNCHANGED <<chans, serial, db, nops>>
    /\ UNCHANGED clientVars

\* ---- skip (cmd_player.py 244-272)
\* self.disconnect(ctx, reason='Reached the end of the queue'): the player
\* stops; whether the player object survives is the backend's business.
Disconnect(b, keep) == Player(keep, FALSE, FALSE, b.last)

\* The value skip saves as the new queue index once its loop is left: next_i
\* after the finally clause has run for the iteration that ended the loop.
SavedIndex(next_i) == next_i + 1

\* The head of skip's while loop, with r the locals on arrival:
\*   next_i < queue_size: fetch the track and hand it off (await enqueue);
\*   else (the loop's else clause): unless queue_end, remove the player data
\*   and disconnect; with queue_end, fall through to set_queue_index(next_i).
SkipLoop(f, p, r) ==
    LET d == db[r.ch] IN
    IF r.next_i < r.queue_size THEN
        /\ inv' = [f EXCEPT ![p] =
                     IF InQueue(d, r.next_i)
                     THEN [r EXCEPT !.pc = "skip_handoff", !.track = dequeue_db(d, r.next_i)]
                     ELSE [r EXCEPT !.pc = "done", !.outcome = "error"]]
        /\ UNCHANGED <<db, backend>>
    ELSE IF ~r.queue_end THEN
        /\ db' = [db EXCEPT ![r.ch] = RemovePlayerData]
        /\ \E keep \in BOOLEAN :
             backend' = [backend EXCEPT ![r.ch] = Disconnect(@, keep)]
        /\ inv' = [f EXCEPT ![p] = [r EXCEPT !.pc = "done", !.disconnected = TRUE,
                                             !.outcome = "QueueExhausted"]]
    ELSE
        /\ db' = [db EXCEPT ![r.ch] = set_queue_index(@, r.next_i)]
        /\ inv' = [f EXCEPT ![p] = [r EXCEPT !.pc = "done", !.wrote = r.next_i,
                                             !.outcome = "returned"]]
        /\ UNCHANGED backend

\* A skip whose scan begins at the index it read.
SkipFromCurrent(p, c, queue_end) ==
    /\ MayInvoke(p, c)
    /\ nops' = nops + 1
    /\ UNCHANGED <<chans, serial>>
    /\ UNCHANGED clientVars
    /\ LET idx == get_queue_index(db[c])
           r == [IdleInv EXCEPT !.op = "skip", !.ch = c, !.queue_end = queue_end,
                                !.player = backend[c].exists,
                                !.pre = db[c], !.pre_active = Active(backend[c]),
                                !.read_i = idx]
       IN IF idx = NoIndex THEN
              /\ inv' = Begin(p, [r EXCEPT !.pc = "done", !.outcome = "error"])
              /\ UNCHANGED <<db, backend>>
          ELSE
              LET r1 == [r EXCEPT !.next_i = idx, !.queue_size = get_queue_size(db[c])]
              IN SkipLoop(Begin(p, r1), p, Begin(p, r1)[p])

\* player = player_manager.get(guild) (None when the guild has no player),
\* next_i = get_queue_index(...) + 1 (a TypeError when there is no index),
\* queue_size = get_queue_size(...), then the loop.
Skip(p, c, queue_end) ==
    /\ MayInvoke(p, c)
    /\ nops' = nops + 1
    /\ UNCHANGED <<chans, serial>>
    /\ UNCHANGED clientVars
    /\ LET idx == get_queue_index(db[c])
           r == [IdleInv EXCEPT !.op = "skip", !.ch = c, !.queue_end = queue_end,
                                !.player = backend[c].exists,
                                !.pre = db[c], !.pre_active = Active(backend[c]),
                                !.read_i = idx]
       IN IF idx = NoIndex THEN
              /\ inv' = Begin(p, [r EXCEPT !.pc = "done", !.outcome = "error"])
              /\ UNCHANGED <<db, backend>>
          ELSE
              LET r1 == [r EXCEPT !.next_i = idx + 1, !.queue_size = get_queue_size(db[c])]
              IN SkipLoop(Begin(p, r1), p, Begin(p, r1)[p])

\* The handoff of items[next_i] ends.
\*   raised: report 'Unable to play ...' and return (finally: next_i += 1);
\*   True:   unless queue_end, await player.skip(), which raises inside the
\*           try when player is None: reported as 'Unable to play ...' too;
\*           then break;
\*   False:  finally: next_i += 1, and back to the loop's head.
SkipHandoffReturn(p) ==
    /\ inv[p].pc = "skip_handoff"
    /\ UNCHANGED <<chans, serial, nops>>
    /\ UNCHANGED clientVars
    /\ \E res \in HandoffResults :
         LET r == [inv[p] EXCEPT !.attempts = Append(@, [i |-> inv[p].next_i, res |-> res])] IN
         CASE res = "raise" ->
                /\ inv' = Upd(p, [r EXCEPT !.pc = "done", !.reports = @ + 1,
                                           !.next_i = @ + 1, !.outcome = "aborted"])
                /\ UNCHANGED <<db, backend>>
           [] res = "ok" /\ ~r.queue_end /\ r.player ->
                /\ backend' = [backend EXCEPT ![r.ch] = Handoff(@, r.track, res)]
                /\ inv' = Upd(p, [r EXCEPT !.pc = "skip_cut", !.handed = r.track,
                                           !.handed_i = r.next_i])
                /\ UNCHANGED db
           [] res = "ok" /\ ~r.queue_end /\ ~r.player ->
                /\ backend' = [backend EXCEPT ![r.ch] = Handoff(@, r.track, res)]
                /\ inv' = Upd(p, [r EXCEPT !.pc = "done", !.handed = r.track,
                                           !.handed_i = r.next_i, !.reports = @ + 1,
                                           !.next_i = @ + 1, !.outcome = "aborted"])
                /\ UNCHANGED db
           [] res = "ok" /\ r.queue_end ->
                /\ backend' = [backend EXCEPT ![r.ch] = Handoff(@, r.track, res)]
                /\ db' = [db EXCEPT ![r.ch] = set_queue_index(@, SavedIndex(r.next_i))]
                /\ inv' = Upd(p, [r EXCEPT !.pc = "done", !.handed = r.track,
                                           !.handed_i = r.next_i,
                                           !.next_i = SavedIndex(r.next_i),
                                           !.wrote = SavedIndex(r.next_i),
                                           !.outcome = "returned"])
           [] res = "fail" ->
                SkipLoop(inv, p, [r EXCEPT !.next_i = @ + 1])

\* player.skip() has returned: break (finally: next_i += 1), then
\* set_queue_index(next_i).
SkipCutReturn(p) ==
    /\ inv[p].pc = "skip_cut"
    /\ LET r == inv[p] IN
       /\ db' = [db EXCEPT ![r.ch] = set_queue_index(@, SavedIndex(r.next_i))]
       /\ inv' = Upd(p, [r EXCEPT !.pc = "done", !.cuts = @ + 1,
                                  !.next_i = SavedIndex(r.next_i),
                                  !.wrote = SavedIndex(r.next_i),
                                  !.outcome = "returned"])
    /\ UNCHANGED <<chans, serial, backend, nops>>
    /\ UNCHANGED clientVars

\* The command has ended; its coroutine is gone.
Return(p) ==
    /\ inv[p].pc = "done"
    /\ inv' = Upd(p, IdleInv)
    /\ UNCHANGED <<chans, serial, db, backend, nops>>
    /\ UNCHANGED clientVars

\* ---- the player, outside play and skip
\* An event may be handled: when commands are serial, none is running.
MayHandle(c) == c \in chans /\ (serial => \A q \in Procs : inv[q].pc = "idle")

\* pause (cmd_player.py 117-127)
Pause(c) ==
    /\ MayHandle(c)
    /\ backend[c].exists /\ ~backend[c].paused
    /\ backend' = [backend EXCEPT ![c].paused = TRUE]
    /\ UNCHANGED <<chans, serial, db, inv, nops>>
    /\ UNCHANGED clientVars

\* unpause (cmd_player.py 275-285)
Unpause(c) ==
    /\ MayHandle(c)
    /\ backend[c].exists /\ backend[c].paused
    /\ backend' = [backend EXCEPT ![c].paused = FALSE]
    /\ UNCHANGED <<chans, serial, db, inv, nops>>
    /\ UNCHANGED clientVars

\* The track that was playing has ended.
TrackEnd(c) ==
    /\ MayHandle(c)
    /\ backend[c].exists /\ backend[c].is_playing
    /\ backend' = [backend EXCEPT ![c].is_playing = FALSE]
    /\ UNCHANGED <<chans, serial, db, inv, nops>>
    /\ UNCHANGED clientVars

\* ------------------------------------------------------------ Spotify client
\* Time is counted in ticks of half a microsecond, finer than a datetime.
TicksPerSec == 2 * 1000000

\* SpotifyCredentials(user_id, access_token, expires_at, refresh_token);
\* expires_at is a datetime: whole microseconds.
SpotifyCredentials(user_id, access_token, expires_at, refresh_token) ==
    [user_id |-> user_id, access_token |-> access_token,
     expires_at |-> expires_at, refresh_token |-> refresh_token]

NoCredentials == SpotifyCredentials("", "", 0, "")

\* expires_at.timestamp: the datetime as seconds since the epoch (here: ticks).
Timestamp(expires_at) == expires_at * 2

\* datetime.fromtimestamp(t): t rounded to whole microseconds, halves to even.
FromTimestamp(t) ==
    LET us == t \div 2 IN
    IF t % 2 = 0 THEN us ELSE IF us % 2 = 0 THEN us ELSE us + 1

\* check_renew renews a token that expires within 15 seconds.
RenewMargin == 15

\* One HTTP request of the client, as the server sees it.
Request(kind, token, uris) == [kind |-> kind, token |-> token, uris |-> uris]

\* The token endpoint's answer.
TokenResponse(status, access_token, expires_in, refresh_token) ==
    [status |-> status, access_token |-> access_token,
     expires_in |-> expires_in, refresh_token |-> refresh_token]

\* requests' raise_for_status(): raises for 4xx and 5xx.
RaiseForStatus(status) == status >= 400

\* request_token(refresh_token=...) sent at time t, answered `lat` ticks later
\* with `resp`: the POST, then (access_token, time.time() + expires_in,
\* refresh_token) of the answer's body unless raise_for_status() raised.
request_token(refresh_token, t, resp, lat) ==
    [requests |-> <<Request("token", refresh_token, <<>>)>>,
     raised |-> resp.status # 200 /\ RaiseForStatus(resp.status),
     access_token |-> resp.access_token,
     expires_at |-> (t + lat) + resp.expires_in * TicksPerSec,
     refresh_token |-> resp.refresh_token]

\* A check_renew that leaves a token with exactly 15 seconds left alone.
AlmostExpiredStrict(expires_at, t) == Timestamp(expires_at) - t < RenewMargin * TicksPerSec

\* Whether check_renew asks for a new token at time t.
AlmostExpired(expires_at, t) == Timestamp(expires_at) - t <= RenewMargin * TicksPerSec

\* A check_renew that renews the tokens and keeps the old expiry.
check_renew_keeps_expiry(token_data, t, resp, lat) ==
    IF AlmostExpired(token_data.expires_at, t) THEN
        LET tok == request_token(token_data.refresh_token, t, resp, lat) IN
        [requests |-> tok.requests,
         raised |-> tok.raised,
         creds |-> IF tok.raised THEN NoCredentials
                   ELSE SpotifyCredentials(token_data.user_id, tok.access_token,
                                           token_data.expires_at, tok.refresh_token)]
    ELSE
        [requests |-> <<>>, raised |-> FALSE, creds |-> token_data]

\* check_renew(token_data) at time t.
check_renew(token_data, t, resp, lat) ==
    IF AlmostExpired(token_data.expires_at, t) THEN
        LET tok == request_token(token_data.refresh_token, t, resp, lat) IN
        [requests |-> tok.requests,
         raised |-> tok.raised,
         creds |-> IF tok.raised THEN NoCredentials
                   ELSE SpotifyCredentials(token_data.user_id, tok.access_token,
                                           FromTimestamp(tok.expires_at), tok.refresh_token)]
    ELSE
        [requests |-> <<>>,
         raised |-> FALSE,
         creds |-> SpotifyCredentials(token_data.user_id, token_data.access_token,
                                      token_data.expires_at, token_data.refresh_token)]

\* list_chunks(tracks, num_per_chunk): consecutive slices of at most
\* num_per_chunk elements.
list_chunks(tracks, num_per_chunk) ==
    LET n == (Len(tracks) + num_per_chunk - 1) \div num_per_chunk IN
    [k \in 1..n |->
        SubSeq(tracks, (k - 1) * num_per_chunk + 1,
               IF k * num_per_chunk < Len(tracks) THEN k * num_per_chunk ELSE Len(tracks))]

\* create_playlist adds the tracks 100 at a time.
ChunkSize == 100

\* A create_playlist that posts the full chunks only.
AddFullChunks(tracks) ==
    list_chunks(SubSeq(tracks, 1, (Len(tracks) \div ChunkSize) * ChunkSize), ChunkSize)

\* The chunks create_playlist posts, one add request each.
AddChunks(tracks) == list_chunks(tracks, ChunkSize)

\* The first request of `statuses` that raises, or 0.
FirstRaise(statuses) ==
    IF \E k \in 1..Len(statuses) : RaiseForStatus(statuses[k])
    THEN CHOOSE k \in 1..Len(statuses) :
            /\ RaiseForStatus(statuses[k])
            /\ \A j \in 1..(k - 1) : ~RaiseForStatus(statuses[j])
    ELSE 0

\* The result of a client call.
Result(requests, raised, creds, playlist_id) ==
    [requests |-> requests, raised |-> raised, creds |-> creds, playlist_id |-> playlist_id]

\* The body of create_playlist(token_data, username, tracks) at time t.
\* st.profile, st.create: the status of GET /me and of the playlist's
\* creation; st.add[k]: the status of the k-th add request.
create_playlist(token_data, tracks, t, resp, lat, st) ==
    LET renew == check_renew(token_data, t, resp, lat)
        bearer == renew.creds.access_token
        profile == renew.requests \o <<Request("profile", bearer, <<>>)>>
        create == profile \o <<Request("create", bearer, <<>>)>>
        chunks == AddChunks(tracks)
        bad == FirstRaise(SubSeq(st.add, 1, Len(chunks)))
        sent == IF bad = 0 THEN Len(chunks) ELSE bad
        adds == [k \in 1..sent |-> Request("add", bearer, chunks[k])]
    IN  IF renew.raised THEN Result(renew.requests, "HTTPError", NoCredentials, "")
        ELSE IF RaiseForStatus(st.profile) THEN Result(profile, "HTTPError", NoCredentials, "")
        ELSE IF RaiseForStatus(st.create) THEN Result(create, "HTTPError", NoCredentials, "")
        ELSE IF bad # 0 THEN Result(create \o adds, "HTTPError", NoCredentials, "")
        ELSE Result(create \o adds, "", renew.creds, "pl1")

\* One answer of the top-items endpoint: its status and, for an error, whether
\* the message is 'Insufficient client scope'.
SeedAnswer(status, scope) == [status |-> status, scope |-> scope]

\* What get_top_seeds raises on an answer ("" when it goes on).
SeedRaise(a) ==
    IF a.status = 200 THEN ""
    ELSE IF a.scope THEN "SpotifyInsufficientAccessError"
    ELSE IF RaiseForStatus(a.status) THEN "HTTPError"
    ELSE ""

\* get_top_seeds(access_token): a GET of the top artists, then one of the top
\* tracks, each with the token it was given; answers[k] answers the k-th.
get_top_seeds(access_token, answers) ==
    LET artists == Request("top_artists", access_token, <<>>)
        tracks == Request("top_tracks", access_token, <<>>)
    IN  IF SeedRaise(answers[1]) # ""
        THEN Result(<<artists>>, SeedRaise(answers[1]), NoCredentials, "")
        ELSE Result(<<artists, tracks>>, SeedRaise(answers[2]), NoCredentials, "")

\* ---- get_tracks
\* The i-th track object of a listing, as album_tracks gives it, and wrapped
\* as playlist_items gives it.
TrackObject(i) ==
    [name |-> <<"name", i>>,
     artists |-> <<[name |-> <<"artist", i>>], [name |-> <<"featured", i>>]>>,
     id |-> <<"id", i>>, duration_ms |-> 1000 * i]

PlaylistItem(i) == [track |-> TrackObject(i)]

\* The listing of n tracks behind (list_type, list_id).
Listing(list_type, n) ==
    [i \in 1..n |-> IF list_type = "album" THEN TrackObject(i) ELSE PlaylistItem(i)]

\* response['items'] of a request at `offset`, when the server gives `size`
\* items a page.
Page(listing, offset, size) ==
    SubSeq(listing, offset + 1, IF offset + size < Len(listing) THEN offset + size
                                 ELSE Len(listing))

\* An offset advanced by one whatever the page held.
NextOffsetByOne(offset, items) == offset + 1

\* offset = offset + len(response['items'])
NextOffset(offset, items) == offset + Len(items)

\* The while loop of get_tracks, about to send its next request: `offsets`
\* are the offsets asked for so far, this one included, and `tracks` the
\* items accumulated; sizes[k] is the page size of the k-th request.  The
\* loop ends on an empty page (or when the model has no further page size).
RECURSIVE Paging(_, _, _, _)
Paging(listing, sizes, offsets, tracks) ==
    LET k == Len(offsets)
        items == Page(listing, offsets[k], sizes[k])
    IN  IF Len(items) = 0 \/ k >= Len(sizes)
        THEN [offsets |-> offsets, tracks |-> tracks, ended |-> Len(items) = 0]
        ELSE Paging(listing, sizes, Append(offsets, NextOffset(offsets[k], items)),
                    tracks \o items)

\* get_tracks(list_type, list_id): the pages, then extract_track_info of each
\* item accumulated.
get_tracks(list_type, n, sizes) ==
    LET paged == Paging(Listing(list_type, n), sizes, <<0>>, <<>>) IN
    [op |-> "get_tracks", list_type |-> list_type, n |-> n, sizes |-> sizes,
     offsets |-> paged.offsets, ended |-> paged.ended,
     tracks |-> [i \in 1..Len(paged.tracks) |-> extract_track_info(paged.tracks[i])]]

NoFetch ==
    [op |-> "none", list_type |-> "", n |-> 0, sizes |-> <<>>, offsets |-> <<>>,
     ended |-> FALSE, tracks |-> <<>>]

\* A call of get_tracks.
GetTracksCall(list_type, n, sizes) ==
    /\ fetch.op = "none"
    /\ fetch' = get_tracks(list_type, n, sizes)
    /\ UNCHANGED <<now, mono, limiter, call, ncalls, started>>
    /\ UNCHANGED playerVars

\* @limits(calls=10, period=5)
Calls == 10
Period == 5

Limiter(num_calls, last_reset) == [num_calls |-> num_calls, last_reset |-> last_reset]

\* The decorator's wrapper at clock time `clock`: a new window once the period
\* has elapsed, one more call counted, and the call let through unless more
\* than Calls were counted in the window.
Limits(lim, clock) ==
    LET period_remaining == Period - (clock - lim.last_reset)
        l == IF period_remaining <= 0 THEN Limiter(0, clock) ELSE lim
    IN Limiter(l.num_calls + 1, l.last_reset)

Admitted(lim) == lim.num_calls <= Calls

\* No status: of a call that sends none of these requests.
NoStatuses == [profile |-> 0, create |-> 0, add |-> <<>>]

\* The record of a client call: its inputs (with the token endpoint's answer
\* and its delay, and the statuses the API answers with), the requests it sent
\* and its result.
Call(op, token_data, tracks, t, clock, resp, lat, st, res) ==
    [op |-> op, token_data |-> token_data, tracks |-> tracks, t |-> t, clock |-> clock,
     resp |-> resp, lat |-> lat, st |-> st,
     requests |-> res.requests, raised |-> res.raised, creds |-> res.creds,
     playlist_id |-> res.playlist_id]

NoCall ==
    Call("none", NoCredentials, <<>>, 0, 0, TokenResponse(0, "", 0, ""), 0, NoStatuses,
         Result(<<>>, "", NoCredentials, ""))

\* A call of check_renew.
CheckRenew(token_data, resp, lat) ==
    /\ ncalls < MaxCalls
    /\ LET r == check_renew(token_data, now, resp, lat) IN
       /\ call' = Call("check_renew", token_data, <<>>, now, mono, resp, lat, NoStatuses,
                       Result(r.requests, IF r.raised THEN "HTTPError" ELSE "", r.creds, ""))
       /\ now' = IF r.requests = <<>> THEN now ELSE now + lat
    /\ ncalls' = ncalls + 1
    /\ UNCHANGED <<mono, limiter, started, fetch>>
    /\ UNCHANGED playerVars

\* A call of create_playlist: the decorator's wrapper, which raises
\* RateLimitException for a call over the limit, then the body.
CreatePlaylist(token_data, tracks, resp, lat, st) ==
    /\ ncalls < MaxCalls
    /\ limiter' = Limits(limiter, mono)
    /\ call' = Call("create_playlist", token_data, tracks, now, mono, resp, lat, st,
                    IF Admitted(Limits(limiter, mono))
                    THEN create_playlist(token_data, tracks, now, resp, lat, st)
                    ELSE Result(<<>>, "RateLimitException", NoCredentials, ""))
    /\ started' = IF Admitted(Limits(limiter, mono)) THEN Append(started, mono) ELSE started
    /\ ncalls' = ncalls + 1
    /\ UNCHANGED <<now, mono, fetch>>
    /\ UNCHANGED playerVars

\* A call of get_top_seeds with the access token of token_data.
GetTopSeeds(token_data, answers) ==
    /\ ncalls < MaxCalls
    /\ call' = Call("get_top_seeds", token_data, <<>>, now, mono,
                    TokenResponse(0, "", 0, ""), 0, NoStatuses,
                    get_top_seeds(token_data.access_token, answers))
    /\ ncalls' = ncalls + 1
    /\ UNCHANGED <<now, mono, limiter, started, fetch>>
    /\ UNCHANGED playerVars

\* A second passes on the limiter's clock.
Tick ==
    /\ mono < MaxMono
    /\ mono' = mono + 1
    /\ UNCHANGED <<now, limiter, call, ncalls, started, fetch>>
    /\ UNCHANGED playerVars

\* ------------------------------------------------------------ specifications
\* What an earlier run of the bot may have left in the store of a guild: a
\* queue and no index, or an index into the queue.
InitData ==
    {PlayerData(OldQueue(n), i) : n \in 0..MaxInit, i \in -1..(MaxInit - 1)}

InitPlayer(active, ser, ops) ==
    /\ chans = active
    /\ serial = ser
    /\ db \in [Channels -> InitData]
    /\ \A c \in Channels : db[c].index < Len(db[c].queue)
    /\ \A c \in Channels \ active : db[c] = RemovePlayerData
    /\ backend = [c \in Channels |-> NoPlayer]
    /\ inv = [p \in Procs |-> IdleInv]
    /\ nops = MaxOps - ops

\* The clock when the bot starts: 100 seconds, or half a microsecond later.
StartTimes == {100 * TicksPerSec, 100 * TicksPerSec + 1}

InitClient(calls) ==
    /\ now \in StartTimes
    /\ mono = 0
    /\ limiter = Limiter(0, 0)
    /\ call = NoCall
    /\ ncalls = MaxCalls - calls
    /\ started = <<>>
    /\ fetch = NoFetch

Commands ==
    \/ \E p \in Procs, c \in Channels : PlayNoQuery(p, c)
    \/ \E p \in Procs : ResumeDequeue(p)
    \/ \E p \in Procs : ResumeReturn(p)
    \/ \E p \in Procs, c \in Channels, q \in PlayerQueries : PlayQuery(p, c, q)
    \/ \E p \in Procs : PlayListed(p)
    \/ \E p \in Procs : PlayFirst(p)
    \/ \E p \in Procs : PlayReturn(p)
    \/ \E p \in Procs, c \in Channels, queue_end \in BOOLEAN : Skip(p, c, queue_end)
    \/ \E p \in Procs : SkipHandoffReturn(p)
    \/ \E p \in Procs : SkipCutReturn(p)
    \/ \E p \in Procs : Return(p)

NextPlayer ==
    \/ Commands
    \/ \E c \in Channels : Pause(c)
    \/ \E c \in Channels : Unpause(c)
    \/ \E c \in Channels : TrackEnd(c)

\* Commands of one guild, one at a time.
Init == InitPlayer({1}, TRUE, MaxOps) /\ InitClient(0) /\ now = 100 * TicksPerSec

Spec == Init /\ [][NextPlayer]_vars

\* Commands of one guild, interleaved at their suspension points.
InitConc == InitPlayer({1}, FALSE, ConcOps) /\ InitClient(0) /\ now = 100 * TicksPerSec

NextConc ==
    \/ Commands
    \/ \E c \in Channels : TrackEnd(c)

SpecConc == InitConc /\ [][NextConc]_vars

\* Commands of two guilds, interleaved at their suspension points.
InitChannels == InitPlayer(Channels, FALSE, ConcOps) /\ InitClient(0) /\ now = 100 * TicksPerSec

SpecChannels == InitChannels /\ [][NextConc]_vars

\* ---- play with each kind of query, twice in a guild.
InitResolve == InitPlayer({1}, TRUE, 2) /\ InitClient(0) /\ now = 100 * TicksPerSec

NextResolve ==
    \/ \E p \in Procs, c \in Channels, q \in Queries : PlayQuery(p, c, q)
    \/ \E p \in Procs : PlayListed(p)
    \/ \E p \in Procs : PlayFirst(p)
    \/ \E p \in Procs : PlayReturn(p)
    \/ \E p \in Procs : Return(p)
    \/ \E c \in Channels : TrackEnd(c)

SpecResolve == InitResolve /\ [][NextResolve]_vars

\* ---- check_renew on its own: two calls, of credentials that have expired,
\* that expire around 15 seconds from now, or that expire in a minute.
Users == {"u1", "u2"}

Expiries(t) ==
    {(t \div 2) + RenewMargin * 1000000 + d : d \in {-1, 0, 1}}
        \cup {(t \div 2) - 1000000, (t \div 2) + 60 * 1000000}

TokenData(t) ==
    {SpotifyCredentials(u, "at0", e, "rt0") : u \in Users, e \in Expiries(t)}

TokenResponses ==
    {TokenResponse(s, "at1", x, r) : s \in {200, 204, 400, 503}, x \in {10, 60}, r \in {"rt0", "rt1"}}

Latencies == {0, 1, TicksPerSec}

InitToken == InitPlayer({}, TRUE, 0) /\ InitClient(2)

NextToken ==
    /\ ncalls < MaxCalls
    /\ \E token_data \in TokenData(now), resp \in TokenResponses, lat \in Latencies :
        CheckRenew(token_data, resp, lat)

SpecToken == InitToken /\ [][NextToken]_vars

\* ---- create_playlist: one call with 0..MaxTracks track URIs, each request
\* of which may fail.
Uris(n) == [i \in 1..n |-> i]

\* The statuses of the requests of one call: the add requests are answered
\* with `add`, but for the failAt-th (if any), answered with failWith.
Statuses(profile, create, add, failAt, failWith) ==
    [profile |-> profile, create |-> create,
     add |-> [k \in 1..((MaxTracks + 99) \div 100) |-> IF k = failAt THEN failWith ELSE add]]

InitPlaylist == InitPlayer({}, TRUE, 0) /\ InitClient(1) /\ now = 100 * TicksPerSec

NextPlaylist ==
    /\ ncalls < MaxCalls
    /\ \E n \in 0..MaxTracks, e \in {(now \div 2) + 1000000, (now \div 2) + 60 * 1000000},
       s \in {200, 400}, profile \in {200, 401}, create \in {200, 201, 403},
       add \in {200, 201}, failAt \in 0..3, failWith \in {304, 500} :
        CreatePlaylist(SpotifyCredentials("u1", "at0", e, "rt0"), Uris(n),
                       TokenResponse(s, "at1", 60, "rt1"), 0,
                       Statuses(profile, create, add, failAt, failWith))

SpecPlaylist == InitPlaylist /\ [][NextPlaylist]_vars

\* ---- the calls made with a user's access token: get_top_seeds and
\* create_playlist, with credentials that expire sooner or later.
SeedAnswers == {SeedAnswer(200, FALSE), SeedAnswer(401, FALSE), SeedAnswer(403, TRUE)}

InitSeeds == InitPlayer({}, TRUE, 0) /\ InitClient(2)

NextSeeds ==
    \/ \E token_data \in TokenData(now), a1 \in SeedAnswers, a2 \in SeedAnswers :
        GetTopSeeds(token_data, <<a1, a2>>)
    \/ \E token_data \in TokenData(now), resp \in TokenResponses, n \in 0..1 :
        CreatePlaylist(token_data, Uris(n), resp, 0, Statuses(200, 201, 200, 0, 500))

SpecSeeds == InitSeeds /\ [][NextSeeds]_vars

\* ---- get_tracks: one call for a listing of 0..MaxListing tracks, each page
\* of which has 1..MaxPage items (fewer at the end of the listing).
InitPaging == InitPlayer({}, TRUE, 0) /\ InitClient(0) /\ now = 100 * TicksPerSec

NextPaging ==
    \E list_type \in {"album", "playlist"}, n \in 0..MaxListing,
       sizes \in [1..(MaxListing + 1) -> 1..MaxPage] :
        GetTracksCall(list_type, n, sizes)

SpecPaging == InitPaging /\ [][NextPaging]_vars

\* ---- the rate limiter: calls of create_playlist as the clock advances.
InitLimiter == InitPlayer({}, TRUE, 0) /\ InitClient(MaxCalls) /\ now = 100 * TicksPerSec

NextLimiter ==
    \/ Tick
    \/ \E n \in 0..1 :
        CreatePlaylist(SpotifyCredentials("u1", "at0", (now \div 2) + 60 * 1000000, "rt0"),
                       Uris(n), TokenResponse(200, "at1", 60, "rt1"), 0,
                       Statuses(200, 201, 201, 0, 500))

SpecLimiter == InitLimiter /\ [][NextLimiter]_vars

\* ------------------------------------------------------------------ claims
Quiescent == \A p \in Procs : ~InFlight(p)

PointerInRange(d) == d.index = NoIndex \/ InQueue(d, d.index)

\* p's command has ended and its locals are still in hand.
Ended(p, op) == inv[p].pc = "done" /\ inv[p].op = op

\* C1: whenever no command is running, the persisted index of a guild is
\* absent or an index into the guild's queue: 0 <= index < len(queue).
C1_PointerInRange ==
    Quiescent => \A c \in chans : PointerInRange(db[c])

\* C2: a skip that handed off the item at index j leaves j as the persisted
\* index.
C2_PointerIsHandedIndex ==
    \A p \in Procs :
        (Ended(p, "skip") /\ inv[p].handed_i # NoIndex)
            => db[inv[p].ch].index = inv[p].handed_i

\* C3: a handoff of skip's scan that failed (returned False or raised) while
\* later items remained was followed by the handoff of the next index: the
\* failure did not end the scan.
C3_ScanContinues ==
    \A p \in Procs :
        Ended(p, "skip") =>
            \A k \in 1..Len(inv[p].attempts) :
                LET a == inv[p].attempts[k] IN
                (a.res # "ok" /\ a.i + 1 < inv[p].queue_size)
                    => \E m \in 1..Len(inv[p].attempts) : inv[p].attempts[m].i = a.i + 1

\* skip's scan reached the end of the queue and no handoff succeeded.
Exhausted(r) ==
    /\ r.op = "skip" /\ r.pc = "done"
    /\ r.read_i # NoIndex
    /\ r.handed_i = NoIndex
    /\ r.outcome \notin {"aborted", "error"}

\* C4: a skip whose scan is exhausted, with queue_end set or not, leaves no
\* persisted data of the guild, has disconnected the player, ends as
\* QueueExhausted and has written no index.
C4_ExhaustedTearsDown ==
    \A p \in Procs :
        Exhausted(inv[p]) =>
            /\ db[inv[p].ch] = RemovePlayerData
            /\ inv[p].disconnected
            /\ inv[p].outcome = "QueueExhausted"
            /\ inv[p].wrote = NoIndex

\* C5: two skips of one guild that ran at the same time did not both read the
\* same index and hand off the same item of the queue.
C5_NoDoubleHandoff ==
    \A p, q \in Procs :
        ( /\ p # q
          /\ inv[p].op = "skip" /\ inv[q].op = "skip"
          /\ inv[p].ch = inv[q].ch
          /\ q \in inv[p].overlap /\ p \in inv[q].overlap
          /\ inv[p].handed_i # NoIndex /\ inv[q].handed_i # NoIndex )
        => ~(inv[p].read_i = inv[q].read_i /\ inv[p].handed_i = inv[q].handed_i)

\* C6: a play with a query that began with no active session (no player, or a
\* player neither playing nor paused) and whose handoff succeeded leaves the
\* queue equal to the resolved items, the index 0, and handed queue[0] to the
\* player.
C6_FreshStartReplacesQueue ==
    \A p \in Procs :
        ( /\ Ended(p, "play")
          /\ ~inv[p].pre_active
          /\ inv[p].handed # NoItem )
        => LET d == db[inv[p].ch] IN
           /\ d.queue = inv[p].new_tracks
           /\ d.index = 0
           /\ inv[p].handed = dequeue_db(d, 0)

\* C7: a play without a query, on a guild whose persisted index is i, hands
\* queue[i] to the player and leaves the persisted data as they were, however
\* often it is repeated; with no persisted index it hands off nothing and
\* changes nothing.
C7_ResumeHandsCurrent ==
    \A p \in Procs :
        Ended(p, "resume") =>
            LET r == inv[p] IN
            /\ db[r.ch] = r.pre
            /\ r.pre.index = NoIndex => r.attempts = <<>>
            /\ r.pre.index # NoIndex =>
                  /\ Len(r.attempts) = 1
                  /\ r.attempts[1].i = r.pre.index
                  /\ InQueue(r.pre, r.pre.index)
                  /\ r.track = dequeue_db(r.pre, r.pre.index)

\* ---- Spotify client
\* The lifetime a call's credentials had left when the call was made, in ticks.
Remaining(c) == Timestamp(c.token_data.expires_at) - c.t

FifteenSeconds == 15 * TicksPerSec

\* C8: check_renew on credentials with more than 15 seconds of lifetime left
\* at the call sends no token request and returns the credentials' four
\* fields unchanged; with 15 seconds or less left it sends exactly one refresh
\* request (carrying the credentials' refresh token), and the credentials it
\* returns carry that response's access token, refresh token and expiry (the
\* response's arrival time plus its expires_in, to the microsecond) and the
\* input's user id.
C8_RenewThreshold ==
    call.op = "check_renew" =>
        /\ Remaining(call) > FifteenSeconds =>
            /\ call.requests = <<>>
            /\ call.raised = ""
            /\ call.creds = call.token_data
        /\ Remaining(call) <= FifteenSeconds =>
            /\ Len(call.requests) = 1
            /\ call.requests[1].kind = "token"
            /\ call.requests[1].token = call.token_data.refresh_token
            /\ call.raised = "" =>
                LET expiry == (call.t + call.lat) + call.resp.expires_in * TicksPerSec
                    diff == Timestamp(call.creds.expires_at) - expiry
                IN  /\ call.creds.user_id = call.token_data.user_id
                    /\ call.creds.access_token = call.resp.access_token
                    /\ call.creds.refresh_token = call.resp.refresh_token
                    /\ diff \in {-1, 0, 1}

\* C8 witness: credentials with exactly 15 seconds left were renewed, and the
\* refresh token was rotated.
C8_RenewedAtFifteen ==
    /\ call.op = "check_renew"
    /\ Remaining(call) = FifteenSeconds
    /\ call.raised = ""
    /\ Len(call.requests) = 1
    /\ call.creds.access_token = "at1"
    /\ call.creds.refresh_token = "rt1"

\* The add-track requests of a call, in the order they were sent.
AddRequests(c) == SelectSeq(c.requests, LAMBDA r : r.kind = "add")

RECURSIVE Flatten(_)
Flatten(ss) == IF ss = <<>> THEN <<>> ELSE Head(ss) \o Flatten(Tail(ss))

\* C9: a create_playlist call on n track URIs that completes sends, after the
\* request that creates the playlist, exactly ceil(n / 100) add-track
\* requests, each with 1 to 100 URIs, whose URI lists concatenated in the
\* order sent are the input list; for n = 0 it sends none.
C9_BatchesOfHundred ==
    (call.op = "create_playlist" /\ call.raised = "") =>
        LET adds == AddRequests(call)
            n == Len(call.tracks)
        IN  /\ Len(adds) = (n + 99) \div 100
            /\ \A k \in 1..Len(adds) : Len(adds[k].uris) \in 1..100
            /\ Flatten([k \in 1..Len(adds) |-> adds[k].uris]) = call.tracks
            /\ \E i \in 1..Len(call.requests) :
                /\ call.requests[i].kind = "create"
                /\ \A j \in 1..Len(call.requests) :
                    call.requests[j].kind = "add" => i < j

\* C9 witness: 250 URIs were added in requests of 100, 100 and 50.
C9_TwoHundredFifty ==
    /\ call.op = "create_playlist"
    /\ call.raised = ""
    /\ Len(call.tracks) = 250
    /\ [k \in 1..Len(AddRequests(call)) |-> Len(AddRequests(call)[k].uris)] = <<100, 100, 50>>

\* C10: a call of create_playlist made when 10 calls were already made in the
\* current 5-second window waits for the window to end; it is never rejected
\* with a rate-limit error.
C10_NeverRejected ==
    call.op = "create_playlist" => call.raised # "RateLimitException"

\* C11: no interval of 5 seconds of the limiter's clock contains more than 10
\* calls of create_playlist whose body started: of any 11 consecutive such
\* calls, the last started at least 5 seconds after the first.
C11_SlidingWindow ==
    \A i \in 1..Len(started) :
        i + Calls <= Len(started) => started[i + Calls] - started[i] >= Period

\* ---- resolver
\* The query of a play is a reference to a catalog track, or to an album or
\* playlist of at least one track.
CatalogReference(q) ==
    /\ q.form = "spotify"
    /\ q.sp_type \in {"track", "album", "playlist"}
    /\ Len(CatalogItems(q.sp_id)) >= 1

\* C12: a play whose query is a catalog reference resolves it into one
\* QueueItem per track of the reference, in catalog order, each with the
\* requester and the track's title, first artist and id and nothing else
\* (one item for a track; the same shape for a list of one track or many).
C12_CatalogItems ==
    \A p \in Procs :
        (Ended(p, "play") /\ CatalogReference(inv[p].query)) =>
            LET items == CatalogItems(inv[p].query.sp_id)
                n == IF inv[p].query.sp_type = "track" THEN 1 ELSE Len(items)
            IN  /\ inv[p].outcome # "error"
                /\ inv[p].new_tracks =
                      [i \in 1..n |-> QueueItem(Requester, <<>>, <<>>, items[i].id,
                                                items[i].name, items[i].artists[1].name)]

\* The query is a catalog reference of a kind play does not support.
UnsupportedReference(q) ==
    q.form = "spotify" /\ q.sp_type \notin {"track", "album", "playlist"}

\* The query is a reference to an album or playlist without tracks.
EmptyReference(q) ==
    /\ q.form = "spotify"
    /\ q.sp_type \in {"album", "playlist"}
    /\ Len(CatalogItems(q.sp_id)) = 0

\* C13: a play whose query is a catalog reference of an unsupported kind, or
\* an album or playlist of no tracks, ends with the reply that says so
\* (unsupported / empty); it has appended no item to the queue, written no
\* index and handed nothing to the player.
C13_ExplicitOutcome ==
    \A p \in Procs :
        ( /\ Ended(p, "play")
          /\ UnsupportedReference(inv[p].query) \/ EmptyReference(inv[p].query) )
        => LET r == inv[p] IN
           /\ r.outcome = IF UnsupportedReference(r.query) THEN "unsupported" ELSE "empty"
           /\ r.new_tracks = <<>>
           /\ db[r.ch].queue \in {r.pre.queue, <<>>}
           /\ db[r.ch].index = r.pre.index
           /\ r.wrote = NoIndex
           /\ r.attempts = <<>>
           /\ r.handed = NoItem

\* C13 witness: a play of a playlist without tracks ended with the 'is empty'
\* reply on a guild whose queue held items.
C13_EmptyPlaylistPlayed ==
    \E p \in Procs :
        /\ Ended(p, "play")
        /\ EmptyReference(inv[p].query)
        /\ inv[p].outcome = "empty"
        /\ inv[p].pre.queue # <<>>

\* The payload fields of an item that are set.
Payload(item) ==
    (IF item.url # <<>> THEN {"url"} ELSE {})
        \cup (IF item.query # <<>> THEN {"query"} ELSE {})
        \cup (IF item.spotify_id # "" THEN {"spotify_id"} ELSE {})

Prefixed(text) == StartsWith(text, "ytsearch:") \/ StartsWith(text, "scsearch:")

\* The items of a play of query q are those of the classification of `text`:
\* a catalog URL gives no item with a url; a generic URL gives one item with
\* url = text; text with a search prefix gives one item with query = text;
\* other text gives one item with query = ytsearch: followed by text; each
\* such item has exactly one payload field.
ClassifiedAs(r, text) ==
    IF r.query.form = "spotify" THEN
        \A i \in 1..Len(r.new_tracks) : "url" \notin Payload(r.new_tracks[i])
    ELSE
        /\ Len(r.new_tracks) = 1
        /\ Cardinality(Payload(r.new_tracks[1])) = 1
        /\ r.new_tracks[1].requester = Requester
        /\ IF r.query.form = "url" THEN r.new_tracks[1].url = text
           ELSE IF Prefixed(text) THEN r.new_tracks[1].query = text
           ELSE r.new_tracks[1].query = <<"ytsearch:">> \o text

\* C14 (as stated): play classifies its query as catalog URL, generic URL,
\* search-prefixed text or plain text, in that order, and a non-catalog query
\* gives exactly one item with exactly one payload field: the URL verbatim,
\* the prefixed query verbatim, or ytsearch: followed by the plain text; a
\* catalog URL never gives an item with a url.
C14_QueryVerbatim ==
    \A p \in Procs : Ended(p, "play") => ClassifiedAs(inv[p], inv[p].query.text)

\* C14 (amended): the same, of the query without its leading and trailing
\* < and > characters, which play removes before it classifies the query.
C14_StrippedQueryVerbatim ==
    \A p \in Procs : Ended(p, "play") => ClassifiedAs(inv[p], Strip(inv[p].query.text))

\* C14 witness: a play of a generic URL written between < and > ended with one
\* item whose url is the URL without them.
C14_BracketedUrlPlayed ==
    \E p \in Procs :
        /\ Ended(p, "play")
        /\ inv[p].query.form = "url"
        /\ Head(inv[p].query.text) = "<"
        /\ Len(inv[p].new_tracks) = 1
        /\ inv[p].new_tracks[1].url = <<"https://", "example.org/a">>

\* ---- create_playlist's HTTP steps
Is2xx(status) == 200 <= status /\ status < 300

\* The requests of the call of the given kind.
Sent(c, kind) == SelectSeq(c.requests, LAMBDA r : r.kind = kind)

\* C15: when the profile lookup, the playlist's creation or an add-tracks
\* request of create_playlist is answered with a status outside 200..299, the
\* call raises the HTTP error and that request is the last one it sent; it
\* sends no request other than token, profile, create and add requests.
C15_NonSuccessFails ==
    (call.op = "create_playlist" /\ call.raised # "RateLimitException") =>
        /\ \A i \in 1..Len(call.requests) :
              call.requests[i].kind \in {"token", "profile", "create", "add"}
        /\ (Len(Sent(call, "profile")) = 1 /\ ~Is2xx(call.st.profile)) =>
              /\ call.raised = "HTTPError"
              /\ Sent(call, "create") = <<>> /\ Sent(call, "add") = <<>>
        /\ (Len(Sent(call, "create")) = 1 /\ ~Is2xx(call.st.create)) =>
              /\ call.raised = "HTTPError"
              /\ Sent(call, "add") = <<>>
        /\ \A k \in 1..Len(Sent(call, "add")) :
              ~Is2xx(call.st.add[k]) =>
                  /\ call.raised = "HTTPError"
                  /\ Len(Sent(call, "add")) = k

\* C16: no request of create_playlist or get_top_seeds carries an access
\* token that had 15 seconds or less of lifetime left when the call began:
\* the call renews such a token before it sends a request with it.
C16_FreshBeforeCalls ==
    (call.op \in {"create_playlist", "get_top_seeds"} /\ Remaining(call) <= FifteenSeconds) =>
        \A i \in 1..Len(call.requests) :
            call.requests[i].kind # "token" =>
                call.requests[i].token # call.token_data.access_token

\* ---- credentials
\* The expiry of the token of the call's token response: its arrival plus its
\* expires_in, in ticks.
ResponseExpiry(c) == (c.t + c.lat) + c.resp.expires_in * TicksPerSec

\* The three token fields of creds are those of the call's token response.
FromResponse(c, creds) ==
    /\ creds.access_token = c.resp.access_token
    /\ creds.refresh_token = c.resp.refresh_token
    /\ Timestamp(creds.expires_at) - ResponseExpiry(c) \in {-1, 0, 1}

\* The three token fields of creds are those of the call's input.
FromInput(c, creds) ==
    /\ creds.access_token = c.token_data.access_token
    /\ creds.refresh_token = c.token_data.refresh_token
    /\ creds.expires_at = c.token_data.expires_at

\* C17: the credentials check_renew returns have the user id of its input,
\* and their access token, expiry and refresh token are either all three
\* those of the token response (when it refreshed) or all three those of the
\* input (when it did not): never an access token with another token's expiry.
C17_PairedCredentials ==
    (call.op = "check_renew" /\ call.raised = "") =>
        /\ call.creds.user_id = call.token_data.user_id
        /\ IF call.requests = <<>>
           THEN FromInput(call, call.creds)
           ELSE FromResponse(call, call.creds)

\* C17 witness: a refresh returned a new access token, a rotated refresh
\* token and a new expiry for user u2.
C17_RefreshedAll ==
    /\ call.op = "check_renew"
    /\ call.raised = ""
    /\ call.requests # <<>>
    /\ call.creds.user_id = "u2"
    /\ call.creds.access_token # call.token_data.access_token
    /\ call.creds.refresh_token # call.token_data.refresh_token
    /\ call.creds.expires_at # call.token_data.expires_at

\* ---- channels
\* Coroutine p took the step: its locals changed (other than the record of
\* the invocations that overlap it).
Stepped(p) == [inv[p] EXCEPT !.overlap = {}] # [inv'[p] EXCEPT !.overlap = {}]

\* C18: a step of a play, resume or skip of one guild, a teardown included,
\* changes the persisted queue and index of no other guild, whatever the
\* commands of the other guilds are doing.
C18_ChannelsIndependent ==
    [][\A c \in Channels :
          db'[c] # db[c] =>
              /\ \E p \in Procs : Stepped(p)
              /\ \A p \in Procs : Stepped(p) => inv'[p].ch = c]_vars

\* C18 witness: a skip tore down guild 1 while a command of guild 2, whose
\* queue and index are set, was in flight.
C18_TeardownBesideOther ==
    \E p, q \in Procs :
        /\ Ended(p, "skip") /\ inv[p].ch = 1 /\ inv[p].disconnected
        /\ InFlight(q) /\ inv[q].ch = 2
        /\ db[2].queue # <<>> /\ db[2].index # NoIndex

\* ---- skip and play on a guild as they find it
\* C19: a skip of a guild without a persisted index (no queue, or a queue
\* and no index) ends as NoActiveSession: it attempted no handoff, wrote no
\* index and left the persisted data as they were.
C19_SkipOnIdle ==
    \A p \in Procs :
        (Ended(p, "skip") /\ inv[p].pre.index = NoIndex) =>
            /\ inv[p].outcome = "NoActiveSession"
            /\ inv[p].attempts = <<>>
            /\ inv[p].wrote = NoIndex
            /\ db[inv[p].ch] = inv[p].pre

\* C20: a play with a query that began while the guild's player was playing
\* or paused, and that resolved its query into items, leaves the queue equal
\* to the items it found there, in their order, followed by the new items in
\* the order of their resolution.
C20_AppendsWhileActive ==
    \A p \in Procs :
        (Ended(p, "play") /\ inv[p].pre_active /\ inv[p].new_tracks # <<>>) =>
            db[inv[p].ch].queue = inv[p].pre.queue \o inv[p].new_tracks

\* C20 witness: a play added its item behind the two or more items of the
\* queue of a guild whose player was active.
C20_AppendedBehindTwo ==
    \E p \in Procs :
        /\ Ended(p, "play") /\ inv[p].pre_active
        /\ Len(inv[p].pre.queue) >= 2
        /\ Len(inv[p].new_tracks) = 1
        /\ db[inv[p].ch].queue = Append(inv[p].pre.queue, inv[p].new_tracks[1])

\* ---- skip's scan
\* The indices of the queue behind index i.
RemainingIndices(d, i) == {j \in 0..(Len(d.queue) - 1) : j > i}

\* C21: the handoffs a skip has attempted are of indices of the queue greater
\* than the index it read at its start, in strictly increasing order (so none
\* twice and none before an earlier one), and there are no more of them than
\* indices behind the one it read: len(queue) - index - 1.
C21_ScanBounded ==
    \A p \in Procs :
        inv[p].op = "skip" =>
            LET a == inv[p].attempts IN
            /\ \A k \in 1..Len(a) : a[k].i \in RemainingIndices(inv[p].pre, inv[p].read_i)
            /\ \A k, m \in 1..Len(a) : k < m => a[k].i < a[m].i
            /\ Len(a) <= Cardinality(RemainingIndices(inv[p].pre, inv[p].read_i))

\* C21 witness: a skip that read index 0 of a queue of three tried index 1,
\* which failed, and then index 2.
C21_ScannedTwo ==
    \E p \in Procs :
        /\ Ended(p, "skip")
        /\ inv[p].read_i = 0 /\ Len(inv[p].pre.queue) = 3
        /\ Len(inv[p].attempts) = 2
        /\ inv[p].attempts[1] = [i |-> 1, res |-> "fail"]
        /\ inv[p].attempts[2].i = 2

\* C22: a skip that has ended issued the signal to cut to the new item
\* (player.skip()) exactly once when a handoff succeeded and queue_end was
\* not set, and not at all otherwise: not with queue_end set, not for
\* handoffs that failed, not when the scan exhausted the queue.
C22_CutOnce ==
    \A p \in Procs :
        Ended(p, "skip") =>
            inv[p].cuts = IF inv[p].handed_i # NoIndex /\ ~inv[p].queue_end THEN 1 ELSE 0

\* ---- get_tracks
\* C23: get_tracks asks for the page at offset 0, then for the page at each
\* offset advanced by the number of items received, and ends on an empty
\* page; for a listing of n tracks, whatever the (positive) sizes of the
\* pages, it returns the n tracks once each in catalog order, a playlist's
\* wrapped items as the same (name, first artist, id, duration_ms) tuples as
\* an album's.
C23_PagesAllTracks ==
    fetch.op = "get_tracks" =>
        /\ fetch.ended
        /\ fetch.offsets[1] = 0
        /\ \A k \in 1..(Len(fetch.offsets) - 1) :
              /\ fetch.offsets[k] < fetch.offsets[k + 1]
              /\ fetch.offsets[k + 1] - fetch.offsets[k] <= fetch.sizes[k]
        /\ fetch.offsets[Len(fetch.offsets)] = fetch.n
        /\ fetch.tracks =
              [i \in 1..fetch.n |-> <<<<"name", i>>, <<"artist", i>>, <<"id", i>>, 1000 * i>>]

\* C23 witness: a playlist of five tracks was fetched in pages of two, two and
\* one items and an empty page.
C23_PlaylistInThreePages ==
    /\ fetch.op = "get_tracks"
    /\ fetch.list_type = "playlist"
    /\ fetch.offsets = <<0, 2, 4, 5>>
    /\ Len(fetch.tracks) = 5

\* ---- reads of the queue
\* The step tore the guild's session down.
TornDown(p) == inv'[p].disconnected /\ ~inv[p].disconnected

\* The step read an item: the index it read at.
ReadAt(p) == IF inv'[p].op = "resume" THEN inv'[p].old_np ELSE inv'[p].next_i

\* C24: a step of a resume or of a skip, short of the teardown of an
\* exhausted queue, leaves the guild's items as they were, and the item it
\* read is still the item at that index after the read; the items of a guild
\* change only when a play appends its new items, when a play replaces them
\* (clears them at its start, its new items then appended), or when a skip
\* tears the session down.
C24_ReadsKeepItems ==
    [][\A c \in Channels :
          /\ \A p \in Procs :
                (Stepped(p) /\ inv'[p].ch = c /\ inv'[p].op \in {"resume", "skip"}) =>
                    /\ ~TornDown(p) => db'[c].queue = db[c].queue
                    /\ inv'[p].pc \in {"resume_handoff", "skip_handoff"} =>
                          /\ InQueue(db'[c], ReadAt(p))
                          /\ inv'[p].track = db'[c].queue[ReadAt(p) + 1]
                          /\ inv'[p].track = db[c].queue[ReadAt(p) + 1]
          /\ db'[c].queue # db[c].queue =>
                \E p \in Procs :
                    /\ Stepped(p) /\ inv'[p].ch = c
                    /\ \/ /\ inv'[p].op = "play"
                          /\ db'[c].queue = db[c].queue \o inv'[p].new_tracks
                       \/ /\ inv'[p].op = "play" /\ inv[p].pc = "idle" /\ inv'[p].cleared
                          /\ db'[c].queue \in {<<>>, inv'[p].new_tracks}
                       \/ /\ TornDown(p)
                          /\ db'[c] = RemovePlayerData]_vars

\* C24 witness: a resume read and handed an item of a queue of three or more,
\* a skip then read two items or more of it and handed one, and the queue is
\* the one both found.
C24_ReadTwiceQueueIntact ==
    \E p, q \in Procs :
        /\ Ended(p, "resume") /\ inv[p].handed # NoItem
        /\ Ended(q, "skip") /\ Len(inv[q].attempts) >= 2 /\ inv[q].handed # NoItem
        /\ Len(db[1].queue) >= 3
        /\ db[1].queue = inv[p].pre.queue
        /\ db[1].queue = inv[q].pre.queue

\* ---- the index and the item handed
\* C25: when a play, a resume or a skip has ended having handed an item to
\* the audio backend, and the guild has a persisted index, the item at that
\* index is the item handed.
C25_HandedIsCurrent ==
    \A p \in Procs :
        (inv[p].pc = "done" /\ inv[p].handed # NoItem
            /\ db[inv[p].ch].index # NoIndex) =>
                /\ InQueue(db[inv[p].ch], db[inv[p].ch].index)
                /\ dequeue_db(db[inv[p].ch], db[inv[p].ch].index) = inv[p].handed

\* ---- create_playlist's credentials
\* The call refreshed the token: its token request was answered and the
\* call went on.
Refreshed(c) == Len(Sent(c, "token")) = 1 /\ Len(Sent(c, "profile")) = 1

\* A request the call sent after check_renew was answered with a status
\* outside 200..299.
LaterStepFailed(c) ==
    \/ Len(Sent(c, "profile")) = 1 /\ ~Is2xx(c.st.profile)
    \/ Len(Sent(c, "create")) = 1 /\ ~Is2xx(c.st.create)
    \/ \E k \in 1..Len(Sent(c, "add")) : ~Is2xx(c.st.add[k])

\* C26: a create_playlist that refreshed the token and then had its profile
\* lookup, its playlist creation or one of its add-tracks requests fail
\* delivers no credentials: its outcome is the error alone, and the refreshed
\* tokens do not reach the caller.
C26_NoCredentialsOnFailure ==
    (call.op = "create_playlist" /\ Refreshed(call) /\ LaterStepFailed(call)) =>
        /\ call.raised # ""
        /\ call.creds = NoCredentials

============================================================================
